---- MODULE Spec2Model ----
(***************************************************************************)
(* State-machine model of the Z1 cell-segmentation pipeline:               *)
(*   cellpose_segmentation/combine_gradients.py  (combination stage)       *)
(*   cellpose_segmentation/predict_gradients.py  (per-axis prediction)     *)
(*   segment.py                                  (pipeline driver)         *)
(*                                                                         *)
(* Arrays are records [shape, at]: shape is the tuple of dimension sizes,  *)
(* at maps every 0-based index tuple to the element.  float32 values are   *)
(* modelled by small integers (probabilities in tenths), so sums and       *)
(* products are exact; NaN and infinities are outside the model.           *)
(***************************************************************************)
EXTENDS Integers, Sequences, FiniteSets, TLC

\* ------------------------------------------------------------------ bounds
\* largest extent of an array along one spatial axis
MaxExtent == 2
\* largest number of voxels of an input array
MaxVoxels == 2
\* largest number of voxels of a prediction chunk
MaxChunkVoxels == 2
\* the processor count the host allots (utils.get_code_ocean_cpu_limit())
HostCpus == 1

\* n_workers of a call: the default, the host's limit, and one more
WorkerChoices == {0, HostCpus, HostCpus + 1}

\* ------------------------------------------------- python / numpy helpers
Min(a, b) == IF a < b THEN a ELSE b

\* s[k] for a 0-based index k
At0(s, k) == s[k + 1]

\* s[-3:]
Last3(s) == SubSeq(s, Len(s) - 2, Len(s))

\* slice(start, stop)
Slice(a, b) == [start |-> a, stop |-> b]

MaxOf(s) == CHOOSE m \in {s[k] : k \in DOMAIN s} : \A k \in DOMAIN s : s[k] <= m

\* every 0-based index tuple of an array of the given shape
Idx(shape) ==
    IF Len(shape) = 0 THEN {<<>>}
    ELSE {t \in [1..Len(shape) -> 0..(MaxOf(shape) - 1)] :
              \A k \in 1..Len(shape) : t[k] < shape[k]}

\* A[k] on the leading axis; k = -1 is the last entry
Sub(A, k) ==
    LET kk == IF k < 0 THEN A.shape[1] + k ELSE k
    IN  [shape |-> Tail(A.shape),
         at |-> [t \in Idx(Tail(A.shape)) |-> A.at[<<kk>> \o t]]]

\* np.squeeze(A, axis=0)
Squeeze0(A) == Sub(A, 0)

\* np.expand_dims(A, axis=0)
ExpandDims0(A) ==
    [shape |-> <<1>> \o A.shape,
     at |-> [t \in Idx(<<1>> \o A.shape) |-> A.at[Tail(t)]]]

\* A + B, elementwise
Add(A, B) == [shape |-> A.shape, at |-> [t \in Idx(A.shape) |-> A.at[t] + B.at[t]]]

\* np.stack((A, B, C), axis=0)
Stack3(A, B, C) ==
    [shape |-> <<3>> \o A.shape,
     at |-> [t \in Idx(<<3>> \o A.shape) |->
                IF t[1] = 0 THEN A.at[Tail(t)]
                ELSE IF t[1] = 1 THEN B.at[Tail(t)] ELSE C.at[Tail(t)]]]

\* (A > threshold).astype(np.uint8)
GreaterU8(A, threshold) ==
    [shape |-> A.shape,
     at |-> [t \in Idx(A.shape) |-> IF A.at[t] > threshold THEN 1 ELSE 0]]

\* A * M with M broadcast over the leading axis of A
MulBroadcast(A, M) ==
    [shape |-> A.shape, at |-> [t \in Idx(A.shape) |-> A.at[t] * M.at[Tail(t)]]]

\* ------------------------------------------------------------ zarr arrays
NoArray == [shape |-> <<>>, chunks |-> <<>>, at |-> <<>>]

\* the fill value of a zarr array created without fill_value
FillValue == 0

\* a creation that takes the array's shape for its chunk shape
ZarrCreateOneChunk(old, shape, chunks) ==
    [shape |-> shape, chunks |-> shape, at |-> [t \in Idx(shape) |-> FillValue]]

\* opening with mode "a": an array already at the path is kept as it is
ZarrCreateKeep(old, shape, chunks) ==
    IF old # NoArray THEN old
    ELSE [shape |-> shape, chunks |-> chunks, at |-> [t \in Idx(shape) |-> FillValue]]

\* zarr.open(path, "w", shape=..., chunks=..., dtype=...): a new array, every
\* element at the fill value, whatever the path held before
ZarrCreate(old, shape, chunks) ==
    [shape |-> shape, chunks |-> chunks, at |-> [t \in Idx(shape) |-> FillValue]]

\* a slice selection is clipped to the array (slice.indices)
ClipSel(shape, coord) ==
    [k \in 1..Len(shape) |->
        Slice(Min(coord[k].start, shape[k]), Min(coord[k].stop, shape[k]))]

SelShape(sel) == [k \in 1..Len(sel) |-> sel[k].stop - sel[k].start]

InSel(sel, t) == \A k \in 1..Len(sel) : sel[k].start <= t[k] /\ t[k] < sel[k].stop

\* whether z[coord] = value is accepted: the value has the selection's shape
ZarrFits(z, coord, value) == SelShape(ClipSel(z.shape, coord)) = value.shape

\* z[coord] = value
ZarrSetItem(z, coord, value) ==
    LET sel == ClipSel(z.shape, coord)
    IN  [z EXCEPT !.at =
            [t \in Idx(z.shape) |->
                IF InSel(sel, t)
                THEN value.at[[k \in 1..Len(t) |-> t[k] - sel[k].start]]
                ELSE z.at[t]]]

\* z[coord]
ZarrGetItem(z, coord) ==
    LET sel == ClipSel(z.shape, coord)
    IN  [shape |-> SelShape(sel),
         at |-> [t \in Idx(SelShape(sel)) |->
                    z.at[[k \in 1..Len(t) |-> t[k] + sel[k].start]]]]

\* ------------------------------------------------------ input gradients
\* Per-voxel contents of a gradients array: for each axis a = 0, 1, 2 the
\* triple (derivative, derivative, probability).  The first profile is the
\* end-to-end scenario (1,2,0.4), (3,4,0.3), (5,6,0.2), in tenths for the
\* probabilities.
Profiles ==
    << << <<1, 2, 4>>,   <<3, 4, 3>>,  <<5, 6, 2>>  >>,
       << <<1, 2, 0>>,   <<3, 4, 0>>,  <<5, 6, 0>>  >>,
       << <<-1, 2, -4>>, <<3, -4, 3>>, <<-5, 6, -2>> >>,
       << <<2, -3, -1>>, <<-2, 5, 3>>, <<4, 3, -1>> >> >>

Seeds == 0..(Len(Profiles) - 1)

Extents == (1..MaxExtent) \X (1..MaxExtent) \X (1..MaxExtent)

Shapes == {S \in Extents : S[1] * S[2] * S[3] <= MaxVoxels}

ChunkShapes == {C \in Extents : C[1] * C[2] * C[3] <= MaxChunkVoxels}

\* a gradients array of spatial shape S: shape (3, 3) + S, voxel (z, y, x)
\* holding profile (z + y + x + seed) mod 4
MakeGradients(S, seed) ==
    [shape |-> <<3, 3>> \o S,
     chunks |-> <<1, 3>> \o S,
     at |-> [t \in Idx(<<3, 3>> \o S) |->
                Profiles[((t[3] + t[4] + t[5] + seed) % Len(Profiles)) + 1][t[1] + 1][t[2] + 1]]]

Datasets == {MakeGradients(S, seed) : S \in Shapes, seed \in Seeds}

\* ------------------------------------------------- data loader (external)
\* create_data_loader / recover_global_position of aind_large_scale_prediction,
\* by their contract: the array is cut into super chunks, each super chunk into
\* prediction chunks; a sample carries the super chunk's slice, the chunk's
\* slice inside it (stop = start + chunk size, not clipped) and the data, which
\* is clipped at the array's edge.
AxisCuts(n, sc, c) ==
    {r \in [s : 0..(n - 1), j : 0..(sc - 1)] :
        r.s % sc = 0 /\ r.j % c = 0 /\ r.s + r.j < n}

SortedCuts(n, sc, c) ==
    LET cuts == AxisCuts(n, sc, c)
    IN  [k \in 1..Cardinality(cuts) |->
            CHOOSE r \in cuts :
                Cardinality({q \in cuts : q.s + q.j < r.s + r.j}) = k - 1]

\* the samples in stream order (last axis fastest); lead = number of leading
\* (non-spatial) axes, each a single chunk
LoaderStream(lazy_shape, chunksize, super) ==
    LET S  == Last3(lazy_shape)
        C  == Last3(chunksize)
        SC == Last3(super)
        cz == SortedCuts(S[1], SC[1], C[1])
        cy == SortedCuts(S[2], SC[2], C[2])
        cx == SortedCuts(S[3], SC[3], C[3])
        lead == [k \in 1..(Len(lazy_shape) - 3) |-> Slice(0, lazy_shape[k])]
        one(rz, ry, rx) ==
            [batch_super_chunk |->
                 lead \o << Slice(rz.s, Min(rz.s + SC[1], S[1])),
                            Slice(ry.s, Min(ry.s + SC[2], S[2])),
                            Slice(rx.s, Min(rx.s + SC[3], S[3])) >>,
             batch_internal_slice |->
                 lead \o << Slice(rz.j, rz.j + C[1]),
                            Slice(ry.j, ry.j + C[2]),
                            Slice(rx.j, rx.j + C[3]) >>]
    IN  [n \in 1..(Len(cz) * Len(cy) * Len(cx)) |->
            one(cz[((n - 1) \div (Len(cy) * Len(cx))) + 1],
                cy[(((n - 1) \div Len(cx)) % Len(cy)) + 1],
                cx[((n - 1) % Len(cx)) + 1])]

\* the position inside the super chunk taken for the global one
recover_local_position(super_chunk_slice, internal_slices) == internal_slices

\* recover_global_position(super_chunk_slice, internal_slices)
recover_global_position(super_chunk_slice, internal_slices) ==
    [k \in 1..Len(internal_slices) |->
        Slice(super_chunk_slice[k].start + internal_slices[k].start,
              super_chunk_slice[k].start + internal_slices[k].stop)]

\* sample.batch_tensor: the chunk's data with the batch axis in front
BatchTensor(lazy_data, sample) ==
    ExpandDims0(ZarrGetItem(lazy_data,
        recover_global_position(sample.batch_super_chunk, sample.batch_internal_slice)))

\* ------------------------------------------------------------------ state
VARIABLES
    entry,                      \* the entry point this process runs
    pc,                         \* position in it
    err,                        \* exception raised to the caller, or "none"
    events,                     \* I/O performed by the current call, in order
    n_workers,                  \* argument n_workers
    co_cpus,                    \* utils.get_code_ocean_cpu_limit()
    profile_process,            \* resource monitor: "none", "running", "crashed", "terminated"
    time_points,                \* number of samples the monitor has recorded
    prediction_chunksize,       \* prediction_chunksize of the running pass
    i,                          \* number of samples taken from the loader
    sample,                     \* locals of the batch loop
    data,
    dP,
    cell_probability,
    dP_masked,
    y,                          \* predict: the gradients predicted for the batch
    global_coord_pos,
    dataset,                    \* combine: the array at dataset_path
    output_combined_gradients,  \* combine: the array at output_combined_gradients_path
    output_cellprob,            \* combine: the array at output_cellprob_path
    image,                      \* predict: the array at dataset_path/multiscale
    output_gradients,           \* predict: the array at output_gradients_path
    slices_per_axis,            \* predict: argument slices_per_axis
    axis,                       \* predict: the axis of the running pass
    shape,                      \* predict: local shape of the pass
    len_datasets,               \* segment: len(dataset_paths)
    results_exists,             \* segment: os.path.exists(results_folder)
    params_ok,                  \* segment: cellpose_params holds every key read
    calls                       \* segment: the stage calls made, in order

None == <<>>

call     == << err, events, n_workers, co_cpus, profile_process, time_points,
              prediction_chunksize >>
locals   == << i, sample, data, dP, cell_probability, dP_masked, y, global_coord_pos >>
cdisk    == << dataset, output_combined_gradients, output_cellprob >>
pvars    == << image, output_gradients, slices_per_axis, axis, shape >>
svars    == << len_datasets, results_exists, params_ok, calls >>

vars == << entry, pc, call, locals, cdisk, pvars, svars >>

\* the locals of a call before its loop starts
FreshLocals ==
    /\ i' = 0
    /\ sample' = None /\ data' = None /\ dP' = None /\ cell_probability' = None
    /\ dP_masked' = None /\ y' = None /\ global_coord_pos' = None

\* n_workers > co_cpus raises ValueError
TooManyWorkers(nw, cpus) == nw > cpus

\* ------------------------------------------ combine_gradients: the batch
cellprob_threshold == 0

\* A // 2, elementwise
Halve(A) == [shape |-> A.shape, at |-> [t \in Idx(A.shape) |-> A.at[t] \div 2]]

\* the average of the two axis pairs instead of their sum
CombinedGradientAverage(d) ==
    Stack3(Halve(Add(Sub(Sub(d, 1), 0), Sub(Sub(d, 2), 0))),
           Halve(Add(Sub(Sub(d, 0), 0), Sub(Sub(d, 2), 1))),
           Halve(Add(Sub(Sub(d, 0), 1), Sub(Sub(d, 1), 1))))

\* dP = np.stack((data[1][0] + data[2][0], data[0][0] + data[2][1],
\*                data[0][1] + data[1][1]), axis=0)
CombinedGradient(d) ==
    Stack3(Add(Sub(Sub(d, 1), 0), Sub(Sub(d, 2), 0)),
           Add(Sub(Sub(d, 0), 0), Sub(Sub(d, 2), 1)),
           Add(Sub(Sub(d, 0), 1), Sub(Sub(d, 1), 1)))

\* a threshold test that lets a sum equal to the threshold through
CellProbabilityNotStrict(d) ==
    GreaterU8(Add(Add(Sub(Sub(d, 0), -1), Sub(Sub(d, 1), -1)), Sub(Sub(d, 2), -1)),
              cellprob_threshold - 1)

\* (data[0][-1] + data[1][-1] + data[2][-1] > cellprob_threshold).astype(np.uint8)
CellProbability(d) ==
    GreaterU8(Add(Add(Sub(Sub(d, 0), -1), Sub(Sub(d, 1), -1)), Sub(Sub(d, 2), -1)),
              cellprob_threshold)

\* the flows saved without the mask applied
MaskedGradientUnmasked(g, m) == g

\* dP_masked = dP * cell_probability
MaskedGradient(g, m) == MulBroadcast(g, m)

\* the data loader of the combination stage: both callers pass
\* super_chunksize = prediction_chunksize
CombineStream == LoaderStream(dataset.shape, prediction_chunksize, prediction_chunksize)

\* -------------------------------------------- combine_gradients: the steps
\* Entry: the arguments (dataset is the array at dataset_path, NoArray when
\* there is none), the worker guard, then the logger and the resource monitor.
CombineEnter ==
    /\ entry = "combine_gradients"
    /\ pc = "idle"
    /\ \E nw \in WorkerChoices, C \in ChunkShapes, ds \in Datasets \cup {NoArray} :
        /\ n_workers' = nw
        /\ dataset' = ds
        /\ co_cpus' = HostCpus
        /\ prediction_chunksize' = <<3, 3>> \o C
        /\ \/ /\ TooManyWorkers(nw, HostCpus)
              /\ pc' = "raised"
              /\ err' = "ValueError"
              /\ events' = <<>>
              /\ profile_process' = "none"
              /\ time_points' = 0
           \/ /\ ~TooManyWorkers(nw, HostCpus)
              /\ pc' = "create_loader"
              /\ err' = "none"
              /\ events' = <<"create_logger", "start_monitor">>
              /\ profile_process' = "running"
              /\ time_points' = 0
    /\ FreshLocals
    /\ UNCHANGED << entry, output_combined_gradients, output_cellprob, pvars, svars >>

\* create_data_loader opens the input array; it fails when there is none.
CombineCreateLoader ==
    /\ pc = "create_loader"
    /\ \/ /\ dataset = NoArray
          /\ pc' = "failed"
          /\ err' = "IOError"
          /\ events' = Append(events, "open_input_failed")
       \/ /\ dataset # NoArray
          /\ pc' = "create_gradients_store"
          /\ events' = Append(Append(events, "open_input"), "create_loader")
          /\ UNCHANGED err
    /\ UNCHANGED << entry, n_workers, co_cpus, profile_process, time_points, prediction_chunksize,
                    locals, cdisk, pvars, svars >>

\* output_combined_gradients = zarr.open(path, "w", shape=(3,) + shape[-3:],
\*                                       chunks=(1,) + prediction_chunksize[-3:])
CombineCreateGradientsStore ==
    /\ pc = "create_gradients_store"
    /\ output_combined_gradients' =
           ZarrCreate(output_combined_gradients, <<3>> \o Last3(dataset.shape),
                      <<1>> \o Last3(prediction_chunksize))
    /\ events' = Append(events, IF output_combined_gradients = NoArray
                                THEN "create_gradients_store"
                                ELSE "replace_gradients_store")
    /\ pc' = "create_cellprob_store"
    /\ UNCHANGED << entry, err, n_workers, co_cpus, profile_process, time_points, prediction_chunksize,
                    locals, dataset, output_cellprob, pvars, svars >>

\* output_cellprob = zarr.open(path, "w", shape=shape[-3:],
\*                             chunks=prediction_chunksize[-3:])
CombineCreateCellprobStore ==
    /\ pc = "create_cellprob_store"
    /\ output_cellprob' =
           ZarrCreate(output_cellprob, Last3(dataset.shape), Last3(prediction_chunksize))
    /\ events' = Append(events, IF output_cellprob = NoArray
                                THEN "create_cellprob_store"
                                ELSE "replace_cellprob_store")
    /\ pc' = "loop"
    /\ UNCHANGED << entry, err, n_workers, co_cpus, profile_process, time_points, prediction_chunksize,
                    locals, dataset, output_combined_gradients, pvars, svars >>

\* One iteration up to the first write: the next sample, its global position,
\* dP, cell_probability and dP_masked.  There is no test of the batch's shape.
CombineNextBatch ==
    /\ pc = "loop"
    /\ i < Len(CombineStream)
    /\ LET s == CombineStream[i + 1]
           d == Squeeze0(BatchTensor(dataset, s))
       IN  /\ sample' = s
           /\ global_coord_pos' =
                  recover_global_position(s.batch_super_chunk, s.batch_internal_slice)
           /\ data' = d
           /\ dP' = CombinedGradient(d)
           /\ cell_probability' = CellProbability(d)
           /\ dP_masked' = MaskedGradient(CombinedGradient(d), CellProbability(d))
    /\ i' = i + 1
    /\ pc' = "write_cellprob"
    /\ UNCHANGED << entry, call, y, cdisk, pvars, svars >>

\* output_cellprob[global_coord_pos[-3:]] = cell_probability
CombineWriteCellprob ==
    /\ pc = "write_cellprob"
    /\ ZarrFits(output_cellprob, Last3(global_coord_pos), cell_probability)
    /\ output_cellprob' =
           ZarrSetItem(output_cellprob, Last3(global_coord_pos), cell_probability)
    /\ pc' = "write_dP"
    /\ UNCHANGED << entry, call, locals, dataset, output_combined_gradients, pvars, svars >>

\* output_combined_gradients[(slice(0, 3),) + global_coord_pos[-3:]] = dP_masked
CombineWriteGradients ==
    /\ pc = "write_dP"
    /\ ZarrFits(output_combined_gradients,
                <<Slice(0, 3)>> \o Last3(global_coord_pos), dP_masked)
    /\ output_combined_gradients' =
           ZarrSetItem(output_combined_gradients,
                       <<Slice(0, 3)>> \o Last3(global_coord_pos), dP_masked)
    /\ pc' = "loop"
    /\ UNCHANGED << entry, call, locals, dataset, output_cellprob, pvars, svars >>

\* The loader or a store write raises inside the loop: nothing catches it, the
\* exception leaves combine_gradients and stop_child_process is not reached.
CombineLoopError ==
    /\ pc \in {"loop", "write_cellprob", "write_dP"}
    /\ pc' = "failed"
    /\ err' = "IOError"
    /\ UNCHANGED << entry, events, n_workers, co_cpus, profile_process, time_points,
                    prediction_chunksize, locals, cdisk, pvars, svars >>

\* utils.stop_child_process(process): best-effort cleanup, it ends a monitor
\* that is running and leaves one that has ended alone
stop_child_process(process) == IF process = "running" THEN "terminated" ELSE process

\* if len(time_points): utils.generate_resources_graphs(...)
ReportEvents(ev, samples) == IF samples > 0 THEN Append(ev, "report") ELSE ev

\* an end of the stage that raises when it finds the monitor dead
CombineFinishChecked ==
    /\ pc = "loop"
    /\ i = Len(CombineStream)
    /\ IF profile_process = "crashed"
       THEN /\ pc' = "failed"
            /\ err' = "RuntimeError"
            /\ UNCHANGED << profile_process, events >>
       ELSE /\ profile_process' = stop_child_process(profile_process)
            /\ events' = ReportEvents(events, time_points)
            /\ pc' = "returned"
            /\ UNCHANGED err
    /\ UNCHANGED << entry, n_workers, co_cpus, time_points, prediction_chunksize,
                    locals, cdisk, pvars, svars >>

\* After the loop: utils.stop_child_process(profile_process), then the report
\* when the monitor has recorded samples.
CombineFinish ==
    /\ pc = "loop"
    /\ i = Len(CombineStream)
    /\ profile_process' = stop_child_process(profile_process)
    /\ events' = ReportEvents(events, time_points)
    /\ pc' = "returned"
    /\ UNCHANGED << entry, err, n_workers, co_cpus, time_points, prediction_chunksize,
                    locals, cdisk, pvars, svars >>

\* ------------------------------------------------ python call binding
\* A call binds when every keyword it passes is a parameter of the callee
\* and every parameter without a default is passed; otherwise the call
\* raises TypeError before the callee's body runs.
Binds(kwargs, params, required) == kwargs \subseteq params /\ required \subseteq kwargs

\* def run_cellpose_net(data, model, axis, normalize=True, diameter=15, anisotropy=1.0)
RunCellposeNetParams == {"data", "model", "axis", "normalize", "diameter", "anisotropy"}

RunCellposeNetRequired == {"data", "model", "axis"}

\* the keywords of the call in large_scale_cellpose_gradients_per_axis
RunCellposeNetKwargs ==
    {"data", "model", "axis", "compute_masks", "batch_size", "normalize",
     "diameter", "rsz", "anisotropy"}

\* --------------------------------------------- predict_gradients: inputs
\* an input image of spatial shape S (its values play no part)
MakeImage(S) ==
    [shape |-> S, chunks |-> S, at |-> [t \in Idx(S) |-> 1 + t[1] + t[2] + t[3]]]

Images == {MakeImage(S) : S \in Shapes}

SliceChoices == (1..MaxExtent) \X (1..MaxExtent) \X (1..MaxExtent)

\* predict_gradients: the prediction chunk of a pass is whole planes,
\* slices_per_axis[axis] of them
PredictionChunksize(ax, slices, image_shape) ==
    IF ax = 0 THEN << At0(slices, 0), image_shape[2], image_shape[3] >>
    ELSE IF ax = 1 THEN << image_shape[1], At0(slices, 1), image_shape[3] >>
    ELSE << image_shape[1], image_shape[2], At0(slices, 2) >>

\* the data loader of a prediction pass: super_chunksize is None and the
\* super chunk, sized by target_size_mb, is the whole array
PredictStream == LoaderStream(image.shape, prediction_chunksize, image.shape)

\* the test that lets a batch of any shape through
ShapeDiffersNever(d, chunksize) == FALSE

\* data.shape != prediction_chunksize
ShapeDiffers(d, chunksize) == d.shape # chunksize

\* ----------------------------------------------- predict_gradients: steps
\* predict_gradients reads the shape of the image at dataset_path (NoArray
\* when there is none) before anything else.
PredictEnter ==
    /\ entry = "predict_gradients"
    /\ pc = "idle"
    /\ \E nw \in WorkerChoices, sl \in SliceChoices, im \in Images \cup {NoArray} :
        /\ n_workers' = nw
        /\ slices_per_axis' = sl
        /\ image' = im
    /\ co_cpus' = HostCpus
    /\ \/ /\ image' = NoArray
          /\ pc' = "failed"
          /\ err' = "IOError"
          /\ events' = <<"open_input_failed">>
       \/ /\ image' # NoArray
          /\ pc' = "axis_call"
          /\ err' = "none"
          /\ events' = <<"open_input">>
    /\ axis' = 0
    /\ FreshLocals
    /\ UNCHANGED << entry, profile_process, time_points, prediction_chunksize, cdisk,
                    output_gradients, shape, svars >>

\* One turn of "for axis in range(0, 3)": the pass's prediction chunk, then
\* large_scale_cellpose_gradients_per_axis up to the start of its monitor.
PredictAxisCall ==
    /\ pc = "axis_call"
    /\ prediction_chunksize' = PredictionChunksize(axis, slices_per_axis, image.shape)
    /\ \/ /\ TooManyWorkers(n_workers, co_cpus)
          /\ pc' = "raised"
          /\ err' = "ValueError"
          /\ UNCHANGED << events, profile_process, time_points >>
       \/ /\ ~TooManyWorkers(n_workers, co_cpus)
          /\ pc' = "axis_create_loader"
          /\ events' = Append(Append(events, "create_logger"), "start_monitor")
          /\ profile_process' = "running"
          /\ time_points' = 0
          /\ UNCHANGED err
    /\ FreshLocals
    /\ UNCHANGED << entry, n_workers, co_cpus, cdisk, pvars, svars >>

PredictCreateLoader ==
    /\ pc = "axis_create_loader"
    /\ events' = Append(Append(events, "open_input"), "create_loader")
    /\ pc' = "axis_open_store"
    /\ UNCHANGED << entry, err, n_workers, co_cpus, profile_process, time_points,
                    prediction_chunksize, locals, cdisk, pvars, svars >>

\* axis 0 creates the gradients array (mode "w"), the other axes reopen it
\* (mode "a") and take its shape.
PredictOpenStore ==
    /\ pc = "axis_open_store"
    /\ \/ /\ axis = 0
          /\ output_gradients' =
                 ZarrCreate(output_gradients, <<3, 3>> \o image.shape,
                            <<1, 3>> \o prediction_chunksize)
          /\ shape' = image.shape
          /\ events' = Append(events, "create_gradients")
       \/ /\ axis # 0
          /\ shape' = output_gradients.shape
          /\ events' = Append(events, "open_gradients")
          /\ UNCHANGED output_gradients
    /\ pc' = "axis_loop"
    /\ UNCHANGED << entry, err, n_workers, co_cpus, profile_process, time_points,
                    prediction_chunksize, locals, cdisk, image, slices_per_axis,
                    axis, svars >>

\* A batch whose shape is not the prediction chunk's: logged, "continue".
PredictSkipBatch ==
    /\ pc = "axis_loop"
    /\ i < Len(PredictStream)
    /\ LET s == PredictStream[i + 1]
           d == Squeeze0(BatchTensor(image, s))
       IN  /\ ShapeDiffers(d, prediction_chunksize)
           /\ sample' = s
           /\ data' = d
    /\ i' = i + 1
    /\ UNCHANGED << entry, pc, call, dP, cell_probability, dP_masked, y, global_coord_pos,
                    cdisk, pvars, svars >>

\* A batch of the prediction chunk's shape: its global position, then the
\* call of run_cellpose_net, which passes keywords the function does not take:
\* TypeError leaves the pass before the clamping and the write.
PredictInference ==
    /\ pc = "axis_loop"
    /\ i < Len(PredictStream)
    /\ LET s == PredictStream[i + 1]
           d == Squeeze0(BatchTensor(image, s))
       IN  /\ ~ShapeDiffers(d, prediction_chunksize)
           /\ sample' = s
           /\ data' = d
           /\ global_coord_pos' =
                  << Slice(axis, axis + 1), Slice(0, 3) >>
                      \o recover_global_position(s.batch_super_chunk,
                                                 s.batch_internal_slice)
    /\ i' = i + 1
    /\ ~Binds(RunCellposeNetKwargs, RunCellposeNetParams, RunCellposeNetRequired)
    /\ pc' = "failed"
    /\ err' = "TypeError"
    /\ UNCHANGED << entry, events, n_workers, co_cpus, profile_process, time_points,
                    prediction_chunksize, dP, cell_probability, dP_masked, y,
                    cdisk, pvars, svars >>

\* The loop is exhausted: stop_child_process, the pass returns, and
\* predict_gradients goes on to the next axis or returns.
PredictAxisFinish ==
    /\ pc = "axis_loop"
    /\ i = Len(PredictStream)
    /\ profile_process' = stop_child_process(profile_process)
    /\ events' = ReportEvents(events, time_points)
    /\ \/ /\ axis < 2
          /\ axis' = axis + 1
          /\ pc' = "axis_call"
       \/ /\ axis = 2
          /\ pc' = "returned"
          /\ UNCHANGED axis
    /\ UNCHANGED << entry, err, n_workers, co_cpus, time_points, prediction_chunksize,
                    locals, cdisk, image, output_gradients, slices_per_axis, shape,
                    svars >>

\* a clamping that leaves every range as computed
ClampAxisNever(sh, coord, k) == coord

\* one of the three tests of the clamping: the k-th axis from the end
ClampAxis(sh, coord, k) ==
    IF sh[Len(sh) - k + 1] < coord[Len(coord) - k + 1].stop
    THEN [coord EXCEPT ![Len(coord) - k + 1] =
              Slice(coord[Len(coord) - k + 1].start, sh[Len(sh) - k + 1])]
    ELSE coord

\* the clamping of the write coordinate to the array, last axis first
ClampCoord(sh, coord) == ClampAxis(sh, ClampAxis(sh, ClampAxis(sh, coord, 1), 2), 3)

\* ------------------------------------------------------------ segment
MaxPaths == 2

\* def predict_gradients(dataset_path, multiscale, output_gradients_path,
\*     slices_per_axis, target_size_mb, n_workers, batch_size,
\*     super_chunksize=None, normalize_image=True, model_name="cyto", cell_diameter=15)
PredictGradientsParams ==
    {"dataset_path", "multiscale", "output_gradients_path", "slices_per_axis",
     "target_size_mb", "n_workers", "batch_size", "super_chunksize",
     "normalize_image", "model_name", "cell_diameter"}

PredictGradientsRequired ==
    {"dataset_path", "multiscale", "output_gradients_path", "slices_per_axis",
     "target_size_mb", "n_workers", "batch_size"}

\* the keywords of segment's call of predict_gradients
SegmentPredictKwargs ==
    {"dataset_paths", "multiscale", "output_gradients_path", "slices_per_axis",
     "target_size_mb", "n_workers", "batch_size", "super_chunksize",
     "global_normalization", "model_name", "cell_diameter", "results_folder",
     "scratch_folder", "cell_channels", "min_cell_volume", "percentile_range"}

\* a validation that lets the run start when either condition holds
SegmentProceedsEither(n, exists) == n # 0 \/ exists

\* if len_datasets and os.path.exists(results_folder)
SegmentProceeds(n, exists) == n # 0 /\ exists

\* segment up to the branch on the validation.  For an empty list a ValueError
\* is built but not raised; when the validation fails the else branch prints
\* and segment returns.
SegmentEnter ==
    /\ entry = "segment"
    /\ pc = "idle"
    /\ \E n \in 0..MaxPaths, ok \in BOOLEAN, exists \in BOOLEAN :
        /\ len_datasets' = n
        /\ params_ok' = ok
        /\ results_exists' = exists
        /\ \/ /\ SegmentProceeds(n, exists)
              /\ pc' = "read_params"
              /\ events' = <<>>
           \/ /\ ~SegmentProceeds(n, exists)
              /\ pc' = "returned"
              /\ events' = <<"print">>
    /\ err' = "none"
    /\ calls' = <<>>
    /\ UNCHANGED << entry, n_workers, co_cpus, profile_process, time_points, prediction_chunksize,
                    locals, cdisk, pvars >>

\* model_name = cellpose_params["model_name"] ... flow_threshold = ...
SegmentReadParams ==
    /\ pc = "read_params"
    /\ \/ /\ params_ok
          /\ pc' = "call_predict"
          /\ UNCHANGED err
       \/ /\ ~params_ok
          /\ pc' = "failed"
          /\ err' = "KeyError"
    /\ UNCHANGED << entry, events, n_workers, co_cpus, profile_process, time_points,
                    prediction_chunksize, locals, cdisk, pvars, svars >>

\* dataset_shape = predict_gradients(dataset_paths=..., ...): the call passes
\* keywords predict_gradients does not take and omits dataset_path, so it
\* raises TypeError and no later stage is called.
SegmentCallPredict ==
    /\ pc = "call_predict"
    /\ calls' = Append(calls, "predict_gradients")
    /\ ~Binds(SegmentPredictKwargs, PredictGradientsParams, PredictGradientsRequired)
    /\ pc' = "failed"
    /\ err' = "TypeError"
    /\ UNCHANGED << entry, events, n_workers, co_cpus, profile_process, time_points,
                    prediction_chunksize, locals, cdisk, pvars, len_datasets,
                    results_exists, params_ok >>

\* ------------------------------------------------------- the process ends
\* The calling process ends (the daemon monitor with it).  The output
\* arrays stay on disk; the next run names its inputs anew.
ProcessExit ==
    /\ pc \in {"returned", "failed", "raised"}
    /\ pc' = "idle"
    /\ err' = "none"
    /\ events' = <<>>
    /\ profile_process' = "none"
    /\ time_points' = 0
    /\ n_workers' = 0
    /\ co_cpus' = HostCpus
    /\ prediction_chunksize' = None
    /\ FreshLocals
    /\ dataset' = NoArray
    /\ image' = NoArray
    /\ results_exists' = FALSE
    /\ slices_per_axis' = None
    /\ axis' = 0
    /\ shape' = None
    /\ len_datasets' = 0
    /\ params_ok' = FALSE
    /\ calls' = <<>>
    /\ UNCHANGED << entry, output_combined_gradients, output_cellprob, output_gradients >>

EntryPoints == {"combine_gradients", "predict_gradients", "segment"}

\* everything but the entry point and its inputs
Quiet ==
    /\ err = "none"
    /\ events = <<>>
    /\ n_workers = 0
    /\ co_cpus = HostCpus
    /\ profile_process = "none"
    /\ time_points = 0
    /\ prediction_chunksize = None
    /\ i = 0
    /\ data = None /\ dP = None /\ cell_probability = None
    /\ dP_masked = None
    /\ y = None
    /\ output_combined_gradients = NoArray
    /\ output_cellprob = NoArray
    /\ output_gradients = NoArray
    /\ slices_per_axis = None
    /\ len_datasets = 0
    /\ params_ok = FALSE
    /\ calls = <<>>

Init ==
    /\ entry \in EntryPoints
    /\ pc = "idle"
    /\ Quiet
    /\ sample = None
    /\ global_coord_pos = None
    /\ axis = 0
    /\ shape = None
    /\ dataset = NoArray
    /\ image = NoArray
    /\ results_exists = FALSE

Next ==
    \/ CombineEnter
    \/ CombineCreateLoader
    \/ CombineCreateGradientsStore
    \/ CombineCreateCellprobStore
    \/ CombineNextBatch
    \/ CombineWriteCellprob
    \/ CombineWriteGradients
    \/ CombineLoopError
    \/ CombineFinish
    \/ PredictEnter
    \/ PredictAxisCall
    \/ PredictCreateLoader
    \/ PredictOpenStore
    \/ PredictSkipBatch
    \/ PredictInference
    \/ PredictAxisFinish
    \/ SegmentEnter
    \/ SegmentReadParams
    \/ SegmentCallPredict
    \/ ProcessExit

Spec == Init /\ [][Next]_vars

\* ------------------------------------------ the clamping, on its own
\* The clamping of large_scale_cellpose_gradients_per_axis applied to the
\* write coordinate of any sample of a pass: the array's spatial shape, the
\* axis of the pass and the sample's slices are drawn from bounded sets.
ClampSlices(n) ==
    {r \in [s : 0..(n - 1), j : 0..(n - 1), c : 1..MaxExtent] : r.s + r.j < n}

ClampSamples(S) ==
    {[batch_super_chunk |->
          << Slice(rz.s, S[1]), Slice(ry.s, S[2]), Slice(rx.s, S[3]) >>,
      batch_internal_slice |->
          << Slice(rz.j, rz.j + rz.c), Slice(ry.j, ry.j + ry.c),
             Slice(rx.j, rx.j + rx.c) >>] :
        rz \in ClampSlices(S[1]), ry \in ClampSlices(S[2]), rx \in ClampSlices(S[3])}

\* the write coordinate before the clamping
WriteCoordinate(ax, s) ==
    << Slice(ax, ax + 1), Slice(0, 3) >>
        \o recover_global_position(s.batch_super_chunk, s.batch_internal_slice)

InitClamp ==
    /\ entry = "clamp"
    /\ pc = "clamp_in"
    /\ Quiet
    /\ dataset = NoArray
    /\ image = NoArray
    /\ results_exists = FALSE
    /\ axis \in 0..2
    /\ \E S \in Extents :
        /\ shape \in {IF axis = 0 THEN S ELSE <<3, 3>> \o S}
        /\ \E s \in ClampSamples(S) :
            /\ sample = s
            /\ global_coord_pos = WriteCoordinate(axis, s)

ClampApply ==
    /\ pc = "clamp_in"
    /\ global_coord_pos' = ClampCoord(shape, global_coord_pos)
    /\ pc' = "clamp_out"
    /\ UNCHANGED << entry, call, i, sample, data, dP, cell_probability, dP_masked, y,
                    cdisk, pvars, svars >>

NextClamp == ClampApply

SpecClamp == InitClamp /\ [][NextClamp]_vars

\* ------------------------------------ the prediction of a batch, by shape
\* A.transpose(perm), perm a tuple of 0-based axes
Transpose(A, perm) ==
    LET n == Len(perm)
        sh == [k \in 1..n |-> A.shape[perm[k] + 1]]
    IN  [shape |-> sh,
         at |-> [t \in Idx(sh) |->
                    A.at[[j \in 1..n |-> t[CHOOSE k \in 1..n : perm[k] = j - 1]]]]]

\* run_2D_cellpose: pm and ipm
pm == << <<0, 1, 2, 3>>, <<1, 0, 2, 3>>, <<2, 0, 1, 3>> >>

ipm == << <<3, 0, 1, 2>>, <<3, 1, 0, 2>>, <<3, 1, 2, 0>> >>

\* transforms.convert_image(data, None, channel_axis=None, z_axis=0,
\* do_3D=True, nchan=model.nchan): (Z, Y, X) becomes (Z, Y, X, nchan), the
\* image in channel 0 and zeros in the others
nchan == 2

convert_image(d) ==
    [shape |-> d.shape \o <<nchan>>,
     at |-> [t \in Idx(d.shape \o <<nchan>>) |->
                IF t[4] = 0 THEN d.at[SubSeq(t, 1, 3)] ELSE 0]]

\* cellpose's run_net on planes (n, h, w, nchan): three output channels for
\* every pixel, (n, h, w, 3).  The network is external; its values stand
\* for any function of the plane, here of the pixel and the channel.
run_net(xsl) ==
    LET sh == << xsl.shape[1], xsl.shape[2], xsl.shape[3], 3 >>
    IN  [shape |-> sh,
         at |-> [t \in Idx(sh) |-> xsl.at[<< t[1], t[2], t[3], 0 >>] + t[4]]]

\* run_2D_cellpose without the transposition back
run_2D_cellpose_planes(imgs, img_axis) == run_net(Transpose(imgs, pm[img_axis + 1]))

\* run_2D_cellpose: the planes of the orientation in front, the network, the
\* result resized to the planes' size and transposed back to (3, Z, Y, X)
run_2D_cellpose(imgs, img_axis) ==
    Transpose(run_net(Transpose(imgs, pm[img_axis + 1])), ipm[img_axis + 1])

\* run_cellpose_net(data, model, axis, ...): what its body computes
run_cellpose_net(d, ax) == run_2D_cellpose(convert_image(d), ax)

\* --------------------------- one iteration of the prediction loop, on its own
\* The body of the loop of large_scale_cellpose_gradients_per_axis applied to
\* any batch of any pass, with the prediction computed as the body of
\* run_cellpose_net computes it: the image, the slices per axis, the axis,
\* the batch and what the earlier passes left in the gradients array are
\* drawn from bounded sets.
\* the gradients array as the axis-0 pass creates it, with non-zero values
\* wherever an earlier pass (leading index below ax) has written when earlier
\* is TRUE
StoreBefore(img, slices, ax, earlier) ==
    LET sh == <<3, 3>> \o img.shape
    IN  [shape |-> sh,
         chunks |-> <<1, 3>> \o PredictionChunksize(0, slices, img.shape),
         at |-> [t \in Idx(sh) |->
                    IF earlier /\ t[1] < ax THEN 1 + t[1] + t[2] ELSE FillValue]]

InitWrite ==
    /\ entry = "loop_body"
    /\ pc = "batch"
    /\ err = "none"
    /\ events = <<>>
    /\ n_workers = 0
    /\ co_cpus = HostCpus
    /\ profile_process = "none"
    /\ time_points = 0
    /\ image \in Images
    /\ slices_per_axis \in SliceChoices
    /\ axis \in 0..2
    /\ prediction_chunksize = PredictionChunksize(axis, slices_per_axis, image.shape)
    /\ \E earlier \in BOOLEAN :
          output_gradients = StoreBefore(image, slices_per_axis, axis, earlier)
    /\ shape = (IF axis = 0 THEN image.shape ELSE output_gradients.shape)
    /\ i \in 0..(Len(PredictStream) - 1)
    /\ sample = None /\ data = None /\ dP = None /\ cell_probability = None
    /\ dP_masked = None /\ y = None /\ global_coord_pos = None
    /\ dataset = NoArray
    /\ output_combined_gradients = NoArray
    /\ output_cellprob = NoArray
    /\ len_datasets = 0
    /\ results_exists = FALSE
    /\ params_ok = FALSE
    /\ calls = <<>>

\* the batch's shape is not the prediction chunk's: continue
BatchSkip ==
    /\ pc = "batch"
    /\ LET s == PredictStream[i + 1]
           d == Squeeze0(BatchTensor(image, s))
       IN  /\ ShapeDiffers(d, prediction_chunksize)
           /\ sample' = s
           /\ data' = d
    /\ i' = i + 1
    /\ pc' = "skipped"
    /\ UNCHANGED << entry, call, dP, cell_probability, dP_masked, y, global_coord_pos,
                    cdisk, pvars, svars >>

\* the batch's global position and its prediction
BatchPredict ==
    /\ pc = "batch"
    /\ LET s == PredictStream[i + 1]
           d == Squeeze0(BatchTensor(image, s))
       IN  /\ ~ShapeDiffers(d, prediction_chunksize)
           /\ sample' = s
           /\ data' = d
           /\ global_coord_pos' = WriteCoordinate(axis, s)
           /\ y' = run_cellpose_net(d, axis)
    /\ i' = i + 1
    /\ pc' = "clamp"
    /\ UNCHANGED << entry, call, dP, cell_probability, dP_masked, cdisk, pvars, svars >>

BatchClamp ==
    /\ pc = "clamp"
    /\ global_coord_pos' = ClampCoord(shape, global_coord_pos)
    /\ pc' = "write"
    /\ UNCHANGED << entry, call, i, sample, data, dP, cell_probability, dP_masked, y,
                    cdisk, pvars, svars >>

\* output_gradients[global_coord_pos] = np.expand_dims(y, axis=0)
BatchWrite ==
    /\ pc = "write"
    /\ IF ZarrFits(output_gradients, global_coord_pos, ExpandDims0(y))
       THEN /\ output_gradients' =
                   ZarrSetItem(output_gradients, global_coord_pos, ExpandDims0(y))
            /\ pc' = "written"
            /\ UNCHANGED err
       ELSE /\ pc' = "failed"
            /\ err' = "ValueError"
            /\ UNCHANGED output_gradients
    /\ UNCHANGED << entry, events, n_workers, co_cpus, profile_process, time_points,
                    prediction_chunksize, locals, cdisk, image, slices_per_axis, axis,
                    shape, svars >>

NextWrite ==
    \/ BatchSkip
    \/ BatchPredict
    \/ BatchClamp
    \/ BatchWrite

SpecWrite == InitWrite /\ [][NextWrite]_vars

\* ------------------------------------------------- the resource monitor
\* utils.profile_resources runs in a process of its own and appends a sample
\* to time_points at every interval; it may end at any moment.  The stages
\* never read its state before stop_child_process.
MaxSamples == 1

MonitorSample ==
    /\ profile_process = "running"
    /\ time_points < MaxSamples
    /\ time_points' = time_points + 1
    /\ UNCHANGED << entry, pc, err, events, n_workers, co_cpus, profile_process,
                    prediction_chunksize, locals, cdisk, pvars, svars >>

MonitorCrash ==
    /\ profile_process = "running"
    /\ profile_process' = "crashed"
    /\ UNCHANGED << entry, pc, err, events, n_workers, co_cpus, time_points,
                    prediction_chunksize, locals, cdisk, pvars, svars >>

\* one run of a stage, interleaved with its monitor
InitMonitor ==
    /\ Init
    /\ entry \in {"combine_gradients", "predict_gradients"}

NextMonitor ==
    \/ CombineEnter
    \/ CombineCreateLoader
    \/ CombineCreateGradientsStore
    \/ CombineCreateCellprobStore
    \/ CombineNextBatch
    \/ CombineWriteCellprob
    \/ CombineWriteGradients
    \/ CombineLoopError
    \/ CombineFinish
    \/ PredictEnter
    \/ PredictAxisCall
    \/ PredictCreateLoader
    \/ PredictOpenStore
    \/ PredictSkipBatch
    \/ PredictInference
    \/ PredictAxisFinish
    \/ MonitorSample
    \/ MonitorCrash

SpecMonitor == InitMonitor /\ [][NextMonitor]_vars

\* ================================================================ claims
\* the global voxel of the local voxel v of the current batch
GlobalVoxel(v) == [k \in 1..3 |-> v[k] + Last3(global_coord_pos)[k].start]

BatchVoxels == IF data = None THEN {} ELSE Idx(Last3(data.shape))

\* C1: for every batch and every voxel of it, the combined gradient is
\* (dZ, dY, dX) with dZ = data[1][0] + data[2][0], dY = data[0][0] + data[2][1],
\* dX = data[0][1] + data[1][1], the data being the input array's values at
\* the batch's global position: a sum, not an average or a maximum.
C1_CombinedGradientIsSum ==
    (entry = "combine_gradients" /\ data # None) =>
        /\ dP.shape = <<3>> \o Last3(data.shape)
        /\ \A v \in BatchVoxels :
            LET in(a, c) == dataset.at[<<a, c>> \o GlobalVoxel(v)]
            IN  /\ data.at[<<1, 0>> \o v] = in(1, 0)
                /\ dP.at[<<0>> \o v] = in(1, 0) + in(2, 0)
                /\ dP.at[<<1>> \o v] = in(0, 0) + in(2, 1)
                /\ dP.at[<<2>> \o v] = in(0, 1) + in(1, 1)

\* the scenario (1,2,.), (3,4,.), (5,6,.) gives (8, 7, 6)
C1_Witness ==
    /\ pc = "write_cellprob"
    /\ \E v \in BatchVoxels :
        /\ data.at[<<0, 0>> \o v] = 1 /\ data.at[<<0, 1>> \o v] = 2
        /\ data.at[<<1, 0>> \o v] = 3 /\ data.at[<<1, 1>> \o v] = 4
        /\ data.at[<<2, 0>> \o v] = 5 /\ data.at[<<2, 1>> \o v] = 6
        /\ dP.at[<<0>> \o v] = 8 /\ dP.at[<<1>> \o v] = 7 /\ dP.at[<<2>> \o v] = 6

\* the sum of the three probability channels at the local voxel v
ProbabilitySum(v) ==
    data.at[<<0, 2>> \o v] + data.at[<<1, 2>> \o v] + data.at[<<2, 2>> \o v]

\* C2: for every batch and every voxel the mask is 1 exactly when the sum of
\* the three probability channels is strictly greater than 0 and 0 otherwise,
\* that is what the mask store holds for the batch once it is written, and
\* the mask store only ever holds 0 and 1.
C2_MaskIsStrictThreshold ==
    /\ (entry = "combine_gradients" /\ data # None) =>
          \A v \in BatchVoxels :
              /\ cell_probability.at[v] = (IF ProbabilitySum(v) > 0 THEN 1 ELSE 0)
              /\ pc = "write_dP" =>
                     output_cellprob.at[GlobalVoxel(v)] = cell_probability.at[v]
    /\ output_cellprob # NoArray =>
          \A t \in Idx(output_cellprob.shape) : output_cellprob.at[t] \in {0, 1}

\* a written batch with a voxel whose probabilities sum to exactly 0 (mask 0)
C2_Witness ==
    /\ pc = "write_dP"
    /\ \E v \in BatchVoxels :
          ProbabilitySum(v) = 0 /\ output_cellprob.at[GlobalVoxel(v)] = 0

\* C3: at every point of the combination stage, a voxel whose mask-store value
\* is 0 has value 0 in all three channels of the flow-field store.
C3_ZeroMaskZeroFlow ==
    (output_cellprob # NoArray /\ output_combined_gradients # NoArray) =>
        \A v \in Idx(output_cellprob.shape) \cap Idx(Last3(output_combined_gradients.shape)) :
            output_cellprob.at[v] = 0 =>
                \A c \in 0..2 : output_combined_gradients.at[<<c>> \o v] = 0

\* a finished run in which a voxel with a non-zero combined gradient was
\* masked out
C3_Witness ==
    /\ entry = "combine_gradients"
    /\ pc = "returned"
    /\ data # None
    /\ \E v \in BatchVoxels :
        /\ dP.at[<<0>> \o v] # 0
        /\ output_cellprob.at[GlobalVoxel(v)] = 0
        /\ \A c \in 0..2 : output_combined_gradients.at[<<c>> \o GlobalVoxel(v)] = 0


\* C4: in the per-axis prediction stage, on each of the trailing three axes
\* of the write coordinate: when the computed stop exceeds the destination
\* array's size on that axis the stop used is that size and the start is
\* unchanged; otherwise the range is as computed; the two leading slices
\* (axis, channels) are never altered.
C4_ClampToArraySize ==
    pc = "clamp_out" =>
        LET computed == WriteCoordinate(axis, sample)
        IN  /\ Len(global_coord_pos) = 5
            /\ global_coord_pos[1] = computed[1]
            /\ global_coord_pos[2] = computed[2]
            /\ \A k \in 1..3 :
                LET size == shape[Len(shape) - 3 + k]
                    used == global_coord_pos[2 + k]
                IN  /\ used.start = computed[2 + k].start
                    /\ used.stop = (IF computed[2 + k].stop > size THEN size
                                    ELSE computed[2 + k].stop)

\* a coordinate clamped on one axis (stop beyond the size) and left as
\* computed on another
C4_Witness ==
    /\ pc = "clamp_out"
    /\ \E k, m \in 1..3 :
        /\ WriteCoordinate(axis, sample)[2 + k].stop > shape[Len(shape) - 3 + k]
        /\ global_coord_pos[2 + k].stop = shape[Len(shape) - 3 + k]
        /\ WriteCoordinate(axis, sample)[2 + m].stop <= shape[Len(shape) - 3 + m]
        /\ global_coord_pos[2 + m] = WriteCoordinate(axis, sample)[2 + m]

\* C5: in the gradient-prediction stage and in the combination stage, when
\* n_workers exceeds the CPU limit the error is raised before any I/O: no
\* input opened, no store created, no loader built, no monitor started.
C5_GuardBeforeAnyIO ==
    (pc = "raised" /\ err = "ValueError") =>
        /\ events = <<>>
        /\ profile_process = "none"

\* C6: segment called with an empty dataset-path list or with a results
\* folder that does not exist ends in an exception raised to the caller, it
\* does not return normally.
C6_InvalidInputIsFatal ==
    (entry = "segment" /\ pc \in {"returned", "failed"}
        /\ (len_datasets = 0 \/ ~results_exists)) =>
        (pc = "failed" /\ err # "none")

\* C7: segment called with an empty dataset-path list or with a results
\* folder that does not exist starts none of the four stages and creates or
\* modifies no output store.
C7_InvalidInputStartsNothing ==
    /\ (entry = "segment" /\ pc # "idle" /\ (len_datasets = 0 \/ ~results_exists)) =>
          /\ calls = <<>>
          /\ pc = "returned"
    /\ entry = "segment" =>
          /\ output_gradients = NoArray
          /\ output_combined_gradients = NoArray
          /\ output_cellprob = NoArray

\* segment has ended on a non-empty list with the results folder missing
C7_Witness ==
    /\ entry = "segment"
    /\ pc = "returned"
    /\ len_datasets > 0
    /\ ~results_exists
    /\ calls = <<>>
    /\ events = <<"print">>

\* the k-th batch of the prediction pass and the indices of the gradients
\* array its write would cover
PredictBatch(k) == Squeeze0(BatchTensor(image, PredictStream[k]))

PredictRegion(k) ==
    {t \in Idx(output_gradients.shape) :
        InSel(ClipSel(output_gradients.shape,
                      WriteCoordinate(axis, PredictStream[k])), t)}

\* a step of the prediction pass taken on a batch of another shape than the
\* prediction chunk's only moves on to the next batch
PredictSkipStep ==
    (entry = "predict_gradients" /\ pc = "axis_loop" /\ i < Len(PredictStream)
        /\ PredictBatch(i + 1).shape # prediction_chunksize) =>
        /\ pc' = "axis_loop"
        /\ i' = i + 1
        /\ err' = "none"
        /\ output_gradients' = output_gradients

\* at the end of a prediction pass the region of every batch of another
\* shape than the prediction chunk's holds the fill value
PredictSkippedRegionsFill ==
    (entry = "predict_gradients" /\ pc = "axis_loop" /\ i = Len(PredictStream)) =>
        \A k \in 1..Len(PredictStream) :
            PredictBatch(k).shape # prediction_chunksize =>
                \A t \in PredictRegion(k) : output_gradients.at[t] = FillValue

CombineSkippedRegionsFill ==
    (entry = "combine_gradients" /\ pc = "returned") =>
        \A k \in 1..Len(CombineStream) :
            Squeeze0(BatchTensor(dataset, CombineStream[k])).shape # prediction_chunksize =>
                \A v \in Idx(output_cellprob.shape) :
                    InSel(ClipSel(output_cellprob.shape,
                                  recover_global_position(
                                      CombineStream[k].batch_super_chunk,
                                      CombineStream[k].batch_internal_slice)), v)
                        => output_cellprob.at[v] = FillValue

C9_MonitorTerminatedOnExit ==
    (entry \in {"combine_gradients", "predict_gradients"}
        /\ pc \in {"returned", "failed"}
        /\ \E k \in DOMAIN events : events[k] = "create_loader") =>
        profile_process # "running"

\* what the combination stage is to leave in the mask store, voxel by
\* voxel from the input alone
ExpectedCellprob ==
    [shape |-> Last3(dataset.shape),
     chunks |-> Last3(prediction_chunksize),
     at |-> [v \in Idx(Last3(dataset.shape)) |->
                IF dataset.at[<<0, 2>> \o v] + dataset.at[<<1, 2>> \o v]
                     + dataset.at[<<2, 2>> \o v] > 0 THEN 1 ELSE 0]]

\* and in the flow-field store
ExpectedGradients ==
    [shape |-> <<3>> \o Last3(dataset.shape),
     chunks |-> <<1>> \o Last3(prediction_chunksize),
     at |-> [t \in Idx(<<3>> \o Last3(dataset.shape)) |->
                LET v == Last3(t)
                    in(a, c) == dataset.at[<<a, c>> \o v]
                IN  ExpectedCellprob.at[v] *
                        (IF t[1] = 0 THEN in(1, 0) + in(2, 0)
                         ELSE IF t[1] = 1 THEN in(0, 0) + in(2, 1)
                         ELSE in(0, 1) + in(1, 1))]]

\* C10: a run of the combination stage that returns leaves mask and flow
\* stores that are a function of its input and chunk shape alone, whatever
\* the stores held before: a re-run over the same inputs yields the same
\* stores.
C10_CombinationIdempotent ==
    (entry = "combine_gradients" /\ pc = "returned") =>
        /\ output_cellprob = ExpectedCellprob
        /\ output_combined_gradients = ExpectedGradients

\* a run over stores left by an earlier run has returned
C10_Witness ==
    /\ entry = "combine_gradients"
    /\ pc = "returned"
    /\ \E k, m \in DOMAIN events :
        /\ events[k] = "replace_gradients_store"
        /\ events[m] = "replace_cellprob_store"
    /\ \E v \in Idx(output_cellprob.shape) : output_cellprob.at[v] = 1
    /\ \E v \in Idx(output_cellprob.shape) : output_cellprob.at[v] = 0

\* how many entries of the sequence s are in the set S
CountIn(s, S) == Cardinality({k \in DOMAIN s : s[k] \in S})

\* the combination stage is past the creation of its two stores
CombinePastCreation ==
    /\ entry = "combine_gradients"
    /\ CountIn(events, {"create_cellprob_store", "replace_cellprob_store"}) > 0

\* in the running combination stage each store has been created at most
\* once, no batch is taken before both are created, and once they are, their
\* shapes and chunk shapes are those of the input and the prediction chunk
CombineStoresAsCreated ==
    entry = "combine_gradients" =>
        /\ CountIn(events, {"create_gradients_store", "replace_gradients_store"}) <= 1
        /\ CountIn(events, {"create_cellprob_store", "replace_cellprob_store"}) <= 1
        /\ (i > 0 \/ pc \in {"loop", "write_cellprob", "write_dP", "returned"}) =>
               CombinePastCreation
        /\ CombinePastCreation =>
            /\ CountIn(events, {"create_gradients_store", "replace_gradients_store"}) = 1
            /\ output_combined_gradients.shape = <<3>> \o Last3(dataset.shape)
            /\ output_combined_gradients.chunks = <<1>> \o Last3(prediction_chunksize)
            /\ output_cellprob.shape = Last3(dataset.shape)
            /\ output_cellprob.chunks = Last3(prediction_chunksize)

\* a step of the combination stage past the creation leaves both stores'
\* shapes and chunk shapes as they are
CombineStoresKeepShape ==
    (CombinePastCreation /\ pc \in {"loop", "write_cellprob", "write_dP"}) =>
        /\ output_combined_gradients'.shape = output_combined_gradients.shape
        /\ output_combined_gradients'.chunks = output_combined_gradients.chunks
        /\ output_cellprob'.shape = output_cellprob.shape
        /\ output_cellprob'.chunks = output_cellprob.chunks

\* C11: in one run of the combination stage each output store is created
\* exactly once, before the first batch is written, and its shape and chunk
\* shape never change afterwards: flow store (3,) + S with chunks (1,) + C,
\* mask store S with chunks C (S, C the trailing three dimensions of the
\* input array and of the prediction chunk shape).
C11_StoresCreatedOnce == []CombineStoresAsCreated /\ [][CombineStoresKeepShape]_vars

\* a run over two batches has returned, with a chunk shape other than the
\* array's and stores of the stated shapes
C11_Witness ==
    /\ entry = "combine_gradients"
    /\ pc = "returned"
    /\ i >= 2
    /\ Last3(prediction_chunksize) # Last3(dataset.shape)
    /\ output_combined_gradients.shape = <<3>> \o Last3(dataset.shape)
    /\ output_combined_gradients.chunks = <<1>> \o Last3(prediction_chunksize)
    /\ output_cellprob.chunks = Last3(prediction_chunksize)
    /\ CountIn(events, {"create_gradients_store", "replace_gradients_store"}) = 1

\* the four stages in the driver's order
StageOrder ==
    << "predict_gradients", "combine_gradients", "generate_flows_and_centroids",
       "generate_masks" >>

\* C12: the driver, called with a non-empty list, an existing results folder
\* and complete parameters, runs the four stages in the fixed order, each
\* after the previous one has returned: it ends having called all four.
C12_DriverRunsStagesInOrder ==
    (entry = "segment" /\ pc \in {"returned", "failed"}
        /\ len_datasets > 0 /\ results_exists /\ params_ok) =>
        /\ pc = "returned"
        /\ calls = StageOrder

\* C13: in every pass that writes into an output store (the three per-axis
\* prediction passes and the combination pass) the spatial chunk shape of the
\* store equals the spatial prediction chunk shape of the pass's batch
\* stream, also in the axis-1 and axis-2 passes, which reopen the store the
\* axis-0 pass created.
C13_StoreChunksArePassChunks ==
    /\ (entry = "predict_gradients" /\ pc = "axis_loop") =>
          Last3(output_gradients.chunks) = Last3(prediction_chunksize)
    /\ (entry = "combine_gradients" /\ pc \in {"loop", "write_cellprob", "write_dP"}) =>
          /\ Last3(output_combined_gradients.chunks) = Last3(prediction_chunksize)
          /\ Last3(output_cellprob.chunks) = Last3(prediction_chunksize)

\* the extent (stop - start) of every range of a coordinate
Extent(coord) == [k \in 1..Len(coord) |-> coord[k].stop - coord[k].start]

PassChunksize(a) == PredictionChunksize(a, slices_per_axis, image.shape)

PassStream(a) == LoaderStream(image.shape, PassChunksize(a), image.shape)

PassRegion(a, k) ==
    {t \in Idx(output_gradients.shape) :
        InSel(ClipSel(output_gradients.shape, WriteCoordinate(a, PassStream(a)[k])), t)}

\* C15: the gradients array is created by the axis-0 pass alone, the passes
\* for axes 1 and 2 reopen it as it is, the pass for axis a writes leading
\* index a only, and once the prediction stage has ended the data of all
\* three axes is present together: every batch of the prediction chunk's
\* shape of every pass is in the array.
C15_AllAxesPresentTogether ==
    /\ (entry = "predict_gradients" /\ pc \in {"axis_loop", "returned", "failed"}
          /\ output_gradients # NoArray /\ image # NoArray) =>
          output_gradients.shape = <<3, 3>> \o image.shape
    /\ (entry = "predict_gradients" /\ pc \in {"returned", "failed"}
          /\ image # NoArray) =>
          \A a \in 0..2 : \A k \in 1..Len(PassStream(a)) :
              Squeeze0(BatchTensor(image, PassStream(a)[k])).shape = PassChunksize(a) =>
                  \A t \in PassRegion(a, k) : output_gradients.at[t] # FillValue

\* every element of the array z is the fill value
AllFill(z) == \A t \in Idx(z.shape) : z.at[t] = FillValue

\* the voxels the k-th batch of the combination stage is written to
CombineRegion(k) ==
    {v \in Idx(Last3(dataset.shape)) :
        InSel(ClipSel(Last3(dataset.shape),
                      Last3(recover_global_position(
                                CombineStream[k].batch_super_chunk,
                                CombineStream[k].batch_internal_slice))), v)}

\* after a failure in the loop of the combination stage the batches before
\* the one that failed are in both stores
WrittenBeforeFailureKept ==
    (CombinePastCreation /\ pc = "failed") =>
        \A k \in 1..(i - 1) : \A v \in CombineRegion(k) :
            /\ output_cellprob.at[v] = ExpectedCellprob.at[v]
            /\ \A c \in 0..2 :
                   output_combined_gradients.at[<<c>> \o v] = ExpectedGradients.at[<<c>> \o v]

\* a run of a stage takes its first batch with every voxel of its stores at
\* the fill value
RunStartsFromFill ==
    /\ (entry = "combine_gradients" /\ pc = "loop" /\ i = 0) =>
          AllFill(output_combined_gradients) /\ AllFill(output_cellprob)
    /\ (entry = "predict_gradients" /\ pc = "axis_loop" /\ axis = 0 /\ i = 0) =>
          AllFill(output_gradients)

\* the step that fails and the end of the process leave the stores as they are
NoRollback ==
    (pc' \in {"failed", "raised", "idle"}) =>
        UNCHANGED << output_combined_gradients, output_cellprob, output_gradients >>

\* C16: a failure of a stage's loop at batch k leaves what was written for
\* the batches before k in the stores (no rollback), and a later run of the
\* stage starts from re-created stores holding the fill value everywhere, so
\* nothing of the failed run is in the re-run's result but what it writes again.
C16_NoRollbackThenFromScratch ==
    [](WrittenBeforeFailureKept /\ RunStartsFromFill) /\ [][NoRollback]_vars

\* a run of the combination stage is about to re-create stores that hold
\* what a failed run left: a voxel with its mask written and its flow not
C16_Witness ==
    /\ entry = "combine_gradients"
    /\ pc = "create_gradients_store"
    /\ output_cellprob # NoArray
    /\ \E v \in Idx(output_cellprob.shape) :
        /\ output_cellprob.at[v] = 1
        /\ v \in Idx(Last3(output_combined_gradients.shape))
        /\ \A c \in 0..2 : output_combined_gradients.at[<<c>> \o v] = FillValue

\* the regions of two different batches of the combination pass share no voxel
CombineRegionsDisjoint ==
    (entry = "combine_gradients" /\ pc \in {"loop", "write_cellprob", "write_dP", "returned"}) =>
        \A k, m \in 1..Len(CombineStream) :
            k # m => CombineRegion(k) \cap CombineRegion(m) = {}

\* the batch in hand is the i-th of the stream, on its way to its own region
CombineInStreamOrder ==
    (entry = "combine_gradients" /\ pc \in {"write_cellprob", "write_dP"}) =>
        /\ sample = CombineStream[i]
        /\ \A v \in Idx(Last3(dataset.shape)) :
               InSel(ClipSel(Last3(dataset.shape), Last3(global_coord_pos)), v)
                   <=> v \in CombineRegion(i)

\* batches are taken one at a time, each after the writes of the one before,
\* and a write leaves every voxel of the earlier batches as it is
CombineOneAfterAnother ==
    entry = "combine_gradients" =>
        /\ i' # i => (i' = 0 \/ (i' = i + 1 /\ pc = "loop"))
        /\ (pc \in {"write_cellprob", "write_dP"} /\ pc' # "failed") =>
               \A k \in 1..(i - 1) : \A v \in CombineRegion(k) :
                   /\ output_cellprob'.at[v] = output_cellprob.at[v]
                   /\ \A c \in 0..2 :
                          output_combined_gradients'.at[<<c>> \o v]
                              = output_combined_gradients.at[<<c>> \o v]

\* C17: in one pass of the combination stage (overlap zero) batches are
\* processed strictly one after another in stream order and the regions
\* written for two different batches never intersect: every voxel of the mask
\* and flow stores is written at most once per pass and a later batch never
\* overwrites an earlier batch's result.
C17_BatchesWriteDisjointRegions ==
    [](CombineRegionsDisjoint /\ CombineInStreamOrder) /\ [][CombineOneAfterAnother]_vars

\* a pass over two batches has returned, the first batch's voxels as it
\* wrote them
C17_Witness ==
    /\ entry = "combine_gradients"
    /\ pc = "returned"
    /\ i = 2
    /\ CombineRegion(1) # {}
    /\ CombineRegion(2) # {}
    /\ \E v \in CombineRegion(1) : output_cellprob.at[v] = 1
    /\ \A v \in CombineRegion(1) : output_cellprob.at[v] = ExpectedCellprob.at[v]

\* the monitor's sampling and its end change nothing of the stage but the
\* monitor's own state
MonitorStepIsPrivate ==
    ((profile_process = "running" /\ profile_process' = "crashed")
        \/ time_points' > time_points) =>
        UNCHANGED << pc, err, events, locals, dataset, output_combined_gradients,
                     output_cellprob, image, output_gradients, axis, shape >>

\* whatever the monitor has done, a stage whose loop is exhausted can end,
\* and the combination stage can return
StageCanEnd ==
    /\ (entry = "combine_gradients" /\ pc = "loop" /\ i = Len(CombineStream)) =>
          ENABLED (CombineFinish /\ pc' = "returned" /\ err' = "none")
    /\ (entry = "predict_gradients" /\ pc = "axis_loop" /\ i = Len(PredictStream)) =>
          ENABLED (PredictAxisFinish /\ err' = "none")

\* a stage that has returned has written what it writes without a monitor,
\* and has made the report exactly when samples exist
ReturnedAsWithoutMonitor ==
    /\ (entry = "combine_gradients" /\ pc = "returned") =>
          /\ err = "none"
          /\ output_cellprob = ExpectedCellprob
          /\ output_combined_gradients = ExpectedGradients
          /\ CountIn(events, {"report"}) = (IF time_points > 0 THEN 1 ELSE 0)
    /\ (entry = "predict_gradients" /\ pc = "returned") =>
          /\ err = "none"
          /\ output_gradients.shape = <<3, 3>> \o image.shape
          /\ AllFill(output_gradients)

\* C18: a failure of the resource monitor at any point of its interleaving
\* with the main loop (it crashes, stops sampling, records no samples)
\* neither aborts the stage nor changes what the main loop writes: the stores
\* end as in a run without the failure and the stage ends successfully, the
\* report left out when there are no samples.
C18_MonitorFailureIsHarmless ==
    [](StageCanEnd /\ ReturnedAsWithoutMonitor) /\ [][MonitorStepIsPrivate]_vars

\* the combination stage has returned over a written batch with its monitor
\* dead before the first sample, and without a report
C18_Witness ==
    /\ entry = "combine_gradients"
    /\ pc = "returned"
    /\ profile_process = "crashed"
    /\ time_points = 0
    /\ i >= 1
    /\ CountIn(events, {"report"}) = 0
    /\ output_cellprob = ExpectedCellprob
    /\ \E v \in Idx(output_cellprob.shape) : output_cellprob.at[v] = 1
====
